---- MODULE Spec2Model ----
(***************************************************************************)
(* Model of app.py: the three SQLite tables (users, item_prices, orders),  *)
(* init_db, and the four routes GET /, POST /buy, GET /order_status/{id}   *)
(* and GET /orders.  Every route is an `async def` without an await, so a  *)
(* handler runs to completion on the event loop: one action per handler.   *)
(*                                                                         *)
(* Prices are REAL columns holding the Python floats of the seed list;     *)
(* they are written here in hundredths (0.03 -> 3, 6.4 -> 640).  SQLite    *)
(* stores a REAL as the same IEEE double Python uses, so float(row[0])     *)
(* returns the stored value bit for bit.                                   *)
(***************************************************************************)
EXTENDS Integers, Sequences, FiniteSets, TLC

VARIABLES started, users, item_prices, orders, last

vars == <<started, users, item_prices, orders, last>>

tables == <<users, item_prices, orders>>

(***************************************************************************)
(* Bounds of the model.                                                    *)
(***************************************************************************)
\* number of distinct outcomes of the random generator that are explored
NumSeeds == 2

(***************************************************************************)
(* Text values.  A string the code compares or measures is a sequence of   *)
(* one-character strings; a nullable column is NULL or Text(s).            *)
(***************************************************************************)
NULL == [null |-> TRUE]

Text(s) == [text |-> s]

\* string.ascii_uppercase + string.digits
Alphabet ==
    << "A", "B", "C", "D", "E", "F", "G", "H", "I", "J", "K", "L", "M",
       "N", "O", "P", "Q", "R", "S", "T", "U", "V", "W", "X", "Y", "Z",
       "0", "1", "2", "3", "4", "5", "6", "7", "8", "9" >>

\* k=8 of random.choices
IdLen == 8

\* the k-th index random.choices draws in the outcome numbered seed
Draw(seed, k) == ((seed * 11 + k * 7) % Len(Alphabet)) + 1

generate_short_transaction_id(seed) ==
    [k \in 1..IdLen |-> Alphabet[Draw(seed, k)]]

Digits == << "0", "1", "2", "3", "4", "5", "6", "7", "8", "9" >>

\* n written with exactly w decimal digits
RECURSIVE Zfill(_, _)
Zfill(n, w) ==
    IF w = 0 THEN << >>
    ELSE Append(Zfill(n \div 10, w - 1), Digits[(n % 10) + 1])

\* byte values of the characters of a timestamp, as memcmp sees them
Ord(c) ==
    CASE c = "+" -> 43
      [] c = "-" -> 45
      [] c = "." -> 46
      [] c = ":" -> 58
      [] c = "T" -> 84
      [] OTHER   -> 47 + (CHOOSE i \in 1..10 : Digits[i] = c)

\* SQLite's BINARY collation on TEXT: -1, 0 or 1
RECURSIVE TextCmp(_, _)
TextCmp(a, b) ==
    IF a = << >> /\ b = << >> THEN 0
    ELSE IF a = << >> THEN -1
    ELSE IF b = << >> THEN 1
    ELSE IF Ord(Head(a)) < Ord(Head(b)) THEN -1
    ELSE IF Ord(Head(a)) > Ord(Head(b)) THEN 1
    ELSE TextCmp(Tail(a), Tail(b))

(***************************************************************************)
(* The clock.  An instant is [sec, usec] within one minute of one day in   *)
(* the configured zone (Asia/Phnom_Penh, +07:00, no daylight saving).      *)
(***************************************************************************)
Instants == { [sec |-> 7, usec |-> 0], [sec |-> 7, usec |-> 250000] }

Earlier(t1, t2) ==
    t1.sec < t2.sec \/ (t1.sec = t2.sec /\ t1.usec < t2.usec)

\* datetime.isoformat(): the fraction is omitted when microsecond is 0
now_iso(t) ==
    << "2", "0", "2", "6", "-", "1", "1", "-", "0", "4", "T",
       "1", "0", ":", "3", "0", ":" >>
    \o Zfill(t.sec, 2)
    \o (IF t.usec = 0 THEN << >> ELSE << "." >> \o Zfill(t.usec, 6))
    \o << "+", "0", "7", ":", "0", "0" >>

(***************************************************************************)
(* item_prices: a set of rows, item_id being the PRIMARY KEY.              *)
(***************************************************************************)
Item(i, g, n, r) ==
    [item_id |-> i, game |-> g, normal_price |-> n, reseller_price |-> r]

\* the default items of init_db
items ==
    << Item("86_DIAMOND", "MLBB", 3, 3),
       Item("172_DIAMAND", "MLBB", 3, 3),
       Item("344_DIAMOND", "MLBB", 640, 560),
       Item("429_DIAMOND", "MLBB", 800, 700),
       Item("50_DIAMOND", "FF", 100, 85),
       Item("100_DIAMOND", "FF", 200, 170) >>

\* INSERT OR REPLACE INTO item_prices: a row whose key exists is overwritten
InsertOrReplace(tbl, row) ==
    {r \in tbl : r.item_id # row.item_id} \cup {row}

\* INSERT OR IGNORE INTO item_prices: a row whose key exists is skipped
InsertOrIgnore(tbl, row) ==
    IF \E r \in tbl : r.item_id = row.item_id THEN tbl ELSE tbl \cup {row}

\* cursor.executemany: the statement is run for each row in list order
RECURSIVE ExecuteMany(_, _)
ExecuteMany(tbl, rows) ==
    IF rows = << >> THEN tbl
    ELSE ExecuteMany(InsertOrIgnore(tbl, Head(rows)), Tail(rows))

SeedCatalog(tbl) == ExecuteMany(tbl, items)

\* SELECT item_id, normal_price, reseller_price FROM item_prices WHERE game=?
get_item_prices(tbl, game) ==
    LET rows == {r \in tbl : r.game = game}
    IN  [i \in {r.item_id : r \in rows} |->
            LET r == CHOOSE x \in rows : x.item_id = i
            IN  [normal |-> r.normal_price, reseller |-> r.reseller_price]]

\* SELECT is_reseller FROM users WHERE user_id=?; False for an unknown user
is_reseller(utbl, user_id) ==
    LET rows == {u \in utbl : u.user_id = user_id}
    IN  IF rows = {} THEN FALSE
        ELSE (CHOOSE u \in rows : TRUE).is_reseller = 1

\* SELECT normal_price FROM item_prices WHERE item_id=?, fetchone()
SelectNormalPriceAnyGame(tbl, item_id, game) ==
    LET rows == {r \in tbl : r.item_id = item_id}
    IN  IF rows = {} THEN << >>
        ELSE << (CHOOSE r \in rows : TRUE).normal_price >>

\* SELECT reseller_price FROM item_prices WHERE item_id=? AND game=?, fetchone()
SelectResellerPrice(tbl, item_id, game) ==
    LET rows == {r \in tbl : r.item_id = item_id /\ r.game = game}
    IN  IF rows = {} THEN << >>
        ELSE << (CHOOSE r \in rows : TRUE).reseller_price >>

\* SELECT normal_price FROM item_prices WHERE item_id=? AND game=?, fetchone():
\* << >> when there is no row, else the one-column row
SelectNormalPrice(tbl, item_id, game) ==
    LET rows == {r \in tbl : r.item_id = item_id /\ r.game = game}
    IN  IF rows = {} THEN << >>
        ELSE << (CHOOSE r \in rows : TRUE).normal_price >>

(***************************************************************************)
(* The payment QR.  khqr.create_qr and khqr.generate_md5 belong to the     *)
(* bakong_khqr package; the payload is identified by the two arguments of  *)
(* create_qr that vary between calls, the image and the digest by the      *)
(* payload they are computed from.                                         *)
(***************************************************************************)
create_qr(amount, bill_number) ==
    [amount |-> amount, bill_number |-> bill_number]

generate_md5(qr_payload) == Text(<< [digest |-> qr_payload] >>)

\* what the collaborators do in one call of generate_qr_code: all of them
\* succeed, one of them raises, or the digest comes back as an empty string
QrOutcomes == {"ok", "raise", "empty_md5"}

\* generate_qr_code: the pair (b64, md5_hash), or (None, None) when anything
\* inside the try block raised
generate_qr_code(amount, seed, outcome) ==
    LET qr_payload == create_qr(amount, generate_short_transaction_id(seed))
        b64 == Text(<< [png |-> qr_payload] >>)
        md5_hash == IF outcome = "empty_md5" THEN Text(<< >>)
                    ELSE generate_md5(qr_payload)
    IN  IF outcome = "raise" THEN << NULL, NULL >> ELSE << b64, md5_hash >>

\* Python truth value of an Optional[str]: None and "" are false
Falsy(v) == v = NULL \/ v.text = << >>

\* `if qr_b64 is None or md5 is None`
QrFailedNoneOnly(qr_b64, md5) == qr_b64 = NULL \/ md5 = NULL

\* `if not qr_b64 or not md5`
QrFailed(qr_b64, md5) == Falsy(qr_b64) \/ Falsy(md5)

(***************************************************************************)
(* orders: the rows in rowid order, order_id being the PRIMARY KEY.        *)
(***************************************************************************)
OrderIds(tbl) == {tbl[i].order_id : i \in 1..Len(tbl)}

\* the same INSERT into a table whose order_id is not a key
InsertOrderNoKey(tbl, row) ==
    [error |-> FALSE, table |-> Append(tbl, row)]

\* INSERT OR REPLACE INTO orders: the row that has the order_id is deleted
InsertOrReplaceOrder(tbl, row) ==
    [error |-> FALSE,
     table |-> Append(SelectSeq(tbl, LAMBDA r : r.order_id # row.order_id), row)]

\* INSERT INTO orders (...) VALUES (...): a duplicate order_id raises
\* sqlite3.IntegrityError and the table is left as it was
InsertOrder(tbl, row) ==
    IF row.order_id \in OrderIds(tbl)
    THEN [error |-> TRUE, table |-> tbl]
    ELSE [error |-> FALSE, table |-> Append(tbl, row)]

\* SELECT status, payment_response, paid_at FROM orders, fetchone()
SelectStatusFirstRow(tbl, order_id) ==
    IF tbl = << >> THEN << >>
    ELSE << [status |-> tbl[1].status,
             payment_response |-> tbl[1].payment_response,
             paid_at |-> tbl[1].paid_at] >>

\* SELECT status, payment_response, paid_at FROM orders WHERE order_id=?,
\* fetchone(): << >> when there is no row, else the first matching row
SelectStatus(tbl, order_id) ==
    LET hits == {i \in 1..Len(tbl) : tbl[i].order_id = order_id}
    IN  IF hits = {} THEN << >>
        ELSE LET r == tbl[CHOOSE i \in hits : \A j \in hits : i <= j]
             IN  << [status |-> r.status,
                     payment_response |-> r.payment_response,
                     paid_at |-> r.paid_at] >>

\* the columns GET /orders selects
Summary(r) ==
    [order_id |-> r.order_id, game |-> r.game, item_id |-> r.item_id,
     amount |-> r.amount, server_id |-> r.server_id, zone_id |-> r.zone_id,
     status |-> r.status, created_at |-> r.created_at, paid_at |-> r.paid_at]

\* WHERE user_id=?
RECURSIVE WhereUser(_, _)
WhereUser(tbl, user_id) ==
    IF tbl = << >> THEN << >>
    ELSE IF Head(tbl).user_id = user_id
         THEN << Head(tbl) >> \o WhereUser(Tail(tbl), user_id)
         ELSE WhereUser(Tail(tbl), user_id)

\* ORDER BY created_at DESC: r goes before the first row it is strictly
\* greater than, so rows with equal created_at stay in rowid order
RECURSIVE InsertDesc(_, _)
InsertDesc(sorted, r) ==
    IF sorted = << >> THEN << r >>
    ELSE IF TextCmp(r.created_at, Head(sorted).created_at) = 1
         THEN << r >> \o sorted
         ELSE << Head(sorted) >> \o InsertDesc(Tail(sorted), r)

\* ORDER BY created_at (ascending)
RECURSIVE OrderByCreatedAtAsc(_)
OrderByCreatedAtAsc(rows) ==
    IF rows = << >> THEN << >>
    ELSE LET rest == OrderByCreatedAtAsc(Tail(rows))
             lo == SelectSeq(rest, LAMBDA r :
                       TextCmp(r.created_at, Head(rows).created_at) = -1)
             hi == SelectSeq(rest, LAMBDA r :
                       TextCmp(r.created_at, Head(rows).created_at) >= 0)
         IN  lo \o << Head(rows) >> \o hi

RECURSIVE OrderByCreatedAtDesc(_)
OrderByCreatedAtDesc(rows) ==
    IF rows = << >> THEN << >>
    ELSE InsertDesc(OrderByCreatedAtDesc(SubSeq(rows, 1, Len(rows) - 1)),
                    rows[Len(rows)])

RECURSIVE MapSummary(_)
MapSummary(rows) ==
    IF rows = << >> THEN << >>
    ELSE << Summary(Head(rows)) >> \o MapSummary(Tail(rows))

\* SELECT ... FROM orders WHERE user_id=? ORDER BY created_at DESC, fetchall()
SelectOrders(tbl, user_id) ==
    MapSummary(OrderByCreatedAtDesc(WhereUser(tbl, user_id)))

(***************************************************************************)
(* The database file bot_data.db as the process finds it.  CREATE TABLE IF *)
(* NOT EXISTS keeps whatever an earlier run, an operator or another client *)
(* of the file left in it.                                                 *)
(***************************************************************************)
User(u, n, b, r) ==
    [user_id |-> u, username |-> n, balance |-> b, is_reseller |-> r]

\* an order of another user, already settled by the payment confirmation
PaidOrder ==
    [order_id |-> << "Q", "7", "R", "2", "K", "9", "W", "4" >>,
     user_id |-> 2, game |-> "FF", item_id |-> "100_DIAMOND", amount |-> 170,
     server_id |-> "9001", zone_id |-> "2",
     md5 |-> generate_md5(create_qr(170, << "H", "3", "L", "L", "0", "P", "A", "Y" >>)),
     status |-> "PAID", payment_response |-> Text(<< "{", "}" >>),
     created_at |-> now_iso([sec |-> 9, usec |-> 0]),
     paid_at |-> Text(now_iso([sec |-> 10, usec |-> 0]))]

StoredFiles ==
    { \* no file yet
      [users |-> {}, item_prices |-> {}, orders |-> << >>],
      \* seeded by an earlier run, then edited and shared with another
      \* client: a price pair changed, an item moved to the other game, an
      \* item added, the demo user made a reseller, a second user, an order
      [users |-> {User(1, "demo", 0, 1), User(2, "other", 500, 0)},
       item_prices |-> (SeedCatalog({}) \ {items[3], items[5]})
                       \cup {Item("344_DIAMOND", "MLBB", 700, 500),
                             Item("50_DIAMOND", "MLBB", 100, 85),
                             Item("WEEKLY_PASS", "MLBB", 150, 120)},
       orders |-> << PaidOrder >>] }

\* the form fields of POST /buy that are tried: an item of the catalog, the
\* same item under the other game, and an item no catalog has
Forms ==
    { [game |-> "MLBB", item_id |-> "344_DIAMOND", server_id |-> "1234", zone_id |-> "5"],
      [game |-> "FF", item_id |-> "344_DIAMOND", server_id |-> "1234", zone_id |-> "5"],
      [game |-> "MLBB", item_id |-> "999_DIAMOND", server_id |-> "1234", zone_id |-> "5"] }

\* the path parameters of GET /order_status/{order_id} that are tried
Unknown1 == << "U", "N", "K", "N", "O", "W", "N", "1" >>

StatusIds ==
    {generate_short_transaction_id(s) : s \in 1..NumSeeds}
        \cup {Unknown1, PaidOrder.order_id}

NoResponse == [op |-> "none"]

Init ==
    /\ started = FALSE
    /\ \E f \in StoredFiles :
        /\ users = f.users
        /\ item_prices = f.item_prices
        /\ orders = f.orders
    /\ last = NoResponse

(***************************************************************************)
(* init_db(), run when the module is imported, i.e. at every process start *)
(***************************************************************************)
init_db ==
    /\ started' = TRUE
    /\ item_prices' = SeedCatalog(item_prices)
    /\ last' = [op |-> "init_db"]
    /\ UNCHANGED <<users, orders>>

(***************************************************************************)
(* GET /                                                                   *)
(***************************************************************************)
home ==
    /\ started
    /\ last' = [op |-> "home", status |-> 200,
                ml_items |-> get_item_prices(item_prices, "MLBB"),
                ff_items |-> get_item_prices(item_prices, "FF"),
                reseller |-> is_reseller(users, 1)]
    /\ UNCHANGED <<started, users, item_prices, orders>>

(***************************************************************************)
(* POST /buy.  form: the four form fields; outcome, bill_seed: what the    *)
(* QR collaborators and the random generator do inside generate_qr_code;   *)
(* id_seed: what the random generator draws for the order id; t: the clock *)
(* at now_iso().  last records the response and how far the handler got:   *)
(* qr is what generate_qr_code returned ("not called" before that), gen_id *)
(* the order id that was generated (empty before that).                    *)
(***************************************************************************)
QrShape(qr) ==
    IF qr[1] = NULL /\ qr[2] = NULL THEN "none"
    ELSE IF qr[1] = NULL \/ qr[2] = NULL THEN "half"
    ELSE IF qr[1].text = << >> \/ qr[2].text = << >> THEN "empty"
    ELSE "ok"

BuyResponse(form, status, body, qr, gen_id) ==
    [op |-> "buy", form |-> form, status |-> status, body |-> body,
     qr |-> qr, gen_id |-> gen_id]

OrderRow(order_id, user_id, form, amount, md5, created_at) ==
    [order_id |-> order_id, user_id |-> user_id, game |-> form.game,
     item_id |-> form.item_id, amount |-> amount,
     server_id |-> form.server_id, zone_id |-> form.zone_id, md5 |-> md5,
     status |-> "UNPAID", payment_response |-> NULL,
     created_at |-> created_at, paid_at |-> NULL]

\* lines 162-172, once the QR is in hand
BuyPersist(form, amount, qr, id_seed, t) ==
    LET user_id == 1
        order_id == generate_short_transaction_id(id_seed)
        created_at == now_iso(t)
        ins == InsertOrder(orders,
                   OrderRow(order_id, user_id, form, amount, qr[2], created_at))
    IN  IF ins.error
        THEN \* the IntegrityError is not caught: the framework answers 500
             /\ last' = BuyResponse(form, 500,
                            [detail |-> "Internal Server Error"],
                            QrShape(qr), order_id)
             /\ UNCHANGED orders
        ELSE /\ orders' = ins.table
             /\ last' = BuyResponse(form, 200,
                            [qr |-> qr[1], order_id |-> order_id,
                             amount |-> amount],
                            QrShape(qr), order_id)

\* lines 158-160, once the price is in hand
BuyPay(form, amount) ==
    \E outcome \in QrOutcomes, bill_seed \in 1..NumSeeds :
        LET qr == generate_qr_code(amount, bill_seed, outcome)
        IN  IF QrFailed(qr[1], qr[2])
            THEN /\ last' = BuyResponse(form, 500,
                               [detail |-> "Failed to generate QR"],
                               QrShape(qr), << >>)
                 /\ UNCHANGED orders
            ELSE \E id_seed \in 1..NumSeeds, t \in Instants :
                     BuyPersist(form, amount, qr, id_seed, t)

buy(form) ==
    /\ started
    /\ LET row == SelectNormalPrice(item_prices, form.item_id, form.game)
       IN  IF row = << >>
           THEN /\ last' = BuyResponse(form, 404, [detail |-> "Item not found"],
                                       "not called", << >>)
                /\ UNCHANGED orders
           ELSE BuyPay(form, row[1])
    /\ UNCHANGED <<started, users, item_prices>>

(***************************************************************************)
(* GET /order_status/{order_id}                                            *)
(***************************************************************************)
order_status(order_id) ==
    /\ started
    /\ LET r == SelectStatus(orders, order_id)
       IN  last' = IF r = << >>
                   THEN [op |-> "order_status", order_id |-> order_id,
                         status |-> 404, body |-> [error |-> "not found"]]
                   ELSE [op |-> "order_status", order_id |-> order_id,
                         status |-> 200, body |-> r[1]]
    /\ UNCHANGED <<started, users, item_prices, orders>>

(***************************************************************************)
(* GET /orders                                                             *)
(***************************************************************************)
list_orders ==
    /\ started
    /\ last' = [op |-> "orders", status |-> 200, user_id |-> 1,
                rows |-> SelectOrders(orders, 1)]
    /\ UNCHANGED <<started, users, item_prices, orders>>

Next ==
    \/ init_db
    \/ home
    \/ \E form \in Forms : buy(form)
    \/ \E order_id \in StatusIds : order_status(order_id)
    \/ list_orders

Spec == Init /\ [][Next]_vars

(***************************************************************************)
(* Properties.  A step with last' # last is a handler that has answered;   *)
(* last' is its response, the unprimed tables are the database it found.   *)
(***************************************************************************)
Answered(op) == last' # last /\ last'.op = op

InCatalog(tbl, form) ==
    \E r \in tbl : r.item_id = form.item_id /\ r.game = form.game

KeyUnique(tbl) == \A i, j \in 1..Len(tbl) : tbl[i].order_id = tbl[j].order_id => i = j

\* C1: a POST /buy for a (game, item_id) that has no row in item_prices
\* answers 404, leaves the orders table as it was and does not call the QR
\* generator.
C1_UnknownItemNotFound ==
    [][ (Answered("buy") /\ ~InCatalog(item_prices, last'.form))
            => /\ last'.status = 404
               /\ last'.qr = "not called"
               /\ orders' = orders ]_vars

\* the item exists, but under the other game
C1_Witness ==
    /\ last.op = "buy"
    /\ last.status = 404
    /\ \E r \in item_prices : r.item_id = last.form.item_id
    /\ orders # << >>

\* C2: when generate_qr_code returns (None, None), or an empty image or an
\* empty fingerprint, POST /buy answers 500 "Failed to generate QR" and the
\* orders table is unchanged.
C2_QrFailureFailsClosed ==
    [][ (Answered("buy") /\ last'.qr \in {"none", "half", "empty"})
            => /\ last'.status = 500
               /\ last'.body = [detail |-> "Failed to generate QR"]
               /\ orders' = orders ]_vars

C2_Witness ==
    /\ last.op = "buy"
    /\ last.qr = "none"
    /\ last.status = 500
    /\ InCatalog(item_prices, last.form)

IsOrderId(s) ==
    /\ Len(s) = 8
    /\ \A k \in 1..Len(s) : \E a \in 1..Len(Alphabet) : s[k] = Alphabet[a]

\* C3: a POST /buy for a (game, item_id) of the catalog whose QR generation
\* succeeds answers with an order_id of 8 characters from A-Z0-9 and adds
\* exactly one order row, with that order_id, status UNPAID and NULL paid_at
\* and payment_response, which GET /order_status then reports.
C3_ValidBuyCreatesUnpaidOrder ==
    [][ (Answered("buy") /\ InCatalog(item_prices, last'.form) /\ last'.qr = "ok")
            => /\ last'.status = 200
               /\ IsOrderId(last'.body.order_id)
               /\ Len(orders') = Len(orders) + 1
               /\ SubSeq(orders', 1, Len(orders)) = orders
               /\ LET new == orders'[Len(orders')]
                  IN  /\ new.order_id = last'.body.order_id
                      /\ new.status = "UNPAID"
                      /\ new.paid_at = NULL
                      /\ new.payment_response = NULL
               /\ SelectStatus(orders', last'.body.order_id)
                    = << [status |-> "UNPAID", payment_response |-> NULL,
                          paid_at |-> NULL] >> ]_vars

\* C4: the amount of a new order, stored and returned, is the normal_price of
\* the catalog row of its (game, item_id), whoever orders; the reseller_price
\* plays no part.
C4_AmountIsNormalPrice ==
    [][ (Answered("buy") /\ last'.status = 200)
            => LET rows == {r \in item_prices : /\ r.item_id = last'.form.item_id
                                                /\ r.game = last'.form.game}
                   new == orders'[Len(orders')]
               IN  /\ rows # {}
                   /\ Len(orders') = Len(orders) + 1
                   /\ \A r \in rows : /\ last'.body.amount = r.normal_price
                                      /\ new.amount = r.normal_price ]_vars

\* a reseller has bought an item whose two prices differ
C4_Witness ==
    /\ last.op = "buy"
    /\ last.status = 200
    /\ is_reseller(users, 1)
    /\ \E r \in item_prices :
          /\ r.item_id = last.form.item_id
          /\ r.game = last.form.game
          /\ r.reseller_price # r.normal_price
          /\ last.body.amount = r.normal_price

\* C5: no two rows of orders have the same order_id, and a POST /buy that
\* generates the order_id of an existing row leaves the table as it was.
C5_OrderIdUnique ==
    [][ /\ KeyUnique(orders)
        /\ KeyUnique(orders')
        /\ (Answered("buy") /\ last'.gen_id \in OrderIds(orders))
              => orders' = orders ]_vars

\* an order id was generated a second time
C5_Witness ==
    /\ last.op = "buy"
    /\ last.gen_id \in OrderIds(orders)
    /\ last.status = 500
    /\ Len(orders) >= 2

\* r2 is r, or r paid: only status, payment_response and paid_at differ, and
\* the status went from UNPAID to PAID
RowKept(r, r2) ==
    \/ r2 = r
    \/ /\ r.status = "UNPAID"
       /\ r2.status = "PAID"
       /\ [r2 EXCEPT !.status = r.status,
                     !.payment_response = r.payment_response,
                     !.paid_at = r.paid_at] = r

\* C6: every step keeps every existing order row, in place, unchanged or
\* changed by UNPAID -> PAID only; a row that appears is UNPAID with NULL
\* paid_at and payment_response.  (No operation of app.py performs the
\* UNPAID -> PAID step.)
C6_OrderLifecycle ==
    [][ /\ Len(orders') >= Len(orders)
        /\ \A i \in 1..Len(orders) : RowKept(orders[i], orders'[i])
        /\ \A i \in (Len(orders) + 1)..Len(orders') :
              /\ orders'[i].status = "UNPAID"
              /\ orders'[i].paid_at = NULL
              /\ orders'[i].payment_response = NULL ]_vars

\* a repeated order id was refused on a table holding a paid and an unpaid
\* order
C6_Witness ==
    /\ Len(orders) >= 2
    /\ last.op = "buy"
    /\ last.status = 500
    /\ last.gen_id \in OrderIds(orders)
    /\ \E i \in 1..Len(orders) : orders[i].status = "PAID"
    /\ \E i \in 1..Len(orders) : orders[i].status = "UNPAID"

\* C7: GET /order_status/{order_id} answers the stored status,
\* payment_response and paid_at of the order with that id, or 404
\* {"error": "not found"} when there is none, and changes no table.
C7_OrderStatus ==
    [][ Answered("order_status")
            => /\ tables' = tables
               /\ LET hits == {i \in 1..Len(orders) :
                                  orders[i].order_id = last'.order_id}
                  IN  IF hits = {}
                      THEN /\ last'.status = 404
                           /\ last'.body = [error |-> "not found"]
                      ELSE /\ last'.status = 200
                           /\ \A i \in hits :
                                 last'.body =
                                    [status |-> orders[i].status,
                                     payment_response |-> orders[i].payment_response,
                                     paid_at |-> orders[i].paid_at] ]_vars

\* the second of two orders was asked for
C7_Witness ==
    /\ last.op = "order_status"
    /\ last.status = 200
    /\ Len(orders) >= 2
    /\ orders[2].order_id = last.order_id
    /\ last.body.status # orders[1].status

ItemKeyUnique(tbl) == \A a, b \in tbl : a.item_id = b.item_id => a = b

\* C8: seeding keeps every row of item_prices as it is, never makes a second
\* row for an item_id, and once it has run a further run changes nothing.
C8_SeedIdempotent ==
    [][ /\ \A r \in item_prices : r \in item_prices'
        /\ ItemKeyUnique(item_prices')
        /\ started => item_prices' = item_prices
        /\ started' => \A k \in 1..Len(items) :
                          \E r \in item_prices' : r.item_id = items[k].item_id ]_vars

\* init_db has run again after orders were taken, on a catalog with edits
C8_Witness ==
    /\ last.op = "init_db"
    /\ \E i \in 1..Len(orders) : orders[i].status = "UNPAID"
    /\ Item("344_DIAMOND", "MLBB", 700, 500) \in item_prices
    /\ Item("50_DIAMOND", "MLBB", 100, 85) \in item_prices
    /\ Item("100_DIAMOND", "FF", 200, 170) \in item_prices

\* C9: GET /orders answers exactly the orders of the user, by created_at
\* descending, which is newest first, and changes no table.
C9_ListOrders ==
    [][ Answered("orders")
            => /\ tables' = tables
               /\ LET rows == last'.rows
                      mine == {i \in 1..Len(orders) :
                                  orders[i].user_id = last'.user_id}
                  IN  /\ Len(rows) = Cardinality(mine)
                      /\ \A i \in mine : \E k \in 1..Len(rows) :
                            rows[k] = Summary(orders[i])
                      /\ \A k \in 1..(Len(rows) - 1) :
                            TextCmp(rows[k].created_at, rows[k + 1].created_at) >= 0
               /\ \A t1, t2 \in Instants :
                     Earlier(t1, t2) <=> TextCmp(now_iso(t1), now_iso(t2)) = -1 ]_vars

\* the newer order was inserted first, and another user's order is left out
C9_Witness ==
    /\ last.op = "orders"
    /\ Len(last.rows) >= 2
    /\ Len(orders) > Len(last.rows)
    /\ TextCmp(last.rows[1].created_at, last.rows[2].created_at) = 1
    /\ \E i, j \in 1..Len(orders) :
          /\ i < j
          /\ orders[i].order_id = last.rows[1].order_id
          /\ orders[j].order_id = last.rows[2].order_id

\* C10: every order has a non-empty md5 and no two orders have the same md5.
C10_Md5Correlates ==
    /\ \A i \in 1..Len(orders) : ~Falsy(orders[i].md5)
    /\ \A i, j \in 1..Len(orders) : orders[i].md5 = orders[j].md5 => i = j

====
